---- MODULE Spec2Model ----
(***************************************************************************)
(* A model of backend/server.py: the credential service (register, login,  *)
(* bearer-token verification), the call-session registry (create, list,    *)
(* join, end), the voice-profile store and the voice orchestration         *)
(* handlers that wrap the external speech service.                         *)
(*                                                                         *)
(* Each request handler is one action, except in the last part, where the  *)
(* handlers that await the worker pool or two writes are cut at their       *)
(* awaits and interleave.  The database collections are sequences of       *)
(* documents in insertion order.  Optional values are sets: {} is None and *)
(* {v} is the value v.  Time is counted in whole hours.                    *)
(***************************************************************************)
EXTENDS Integers, Sequences, FiniteSets, TLC

VARIABLES
    users,                  \* db.users
    voice_profiles,         \* db.voice_profiles
    calls,                  \* db.calls
    tts_generations,        \* db.tts_generations
    stt_transcriptions,     \* db.stt_transcriptions
    ELEVENLABS_AVAILABLE,   \* process-wide flag set once at start-up
    submitted,              \* the external calls the last step handed to the worker pool
    now,                    \* the wall clock, in hours
    req,                    \* the request served by the last step
    resp,                   \* the response sent by the last step
    tasks                   \* the requests whose handlers are suspended at an await

vars == <<users, voice_profiles, calls, tts_generations, stt_transcriptions,
          ELEVENLABS_AVAILABLE, submitted, now, req, resp, tasks>>

stores == <<users, voice_profiles, calls, tts_generations, stt_transcriptions>>

-----------------------------------------------------------------------------
(* Bounds of the model *)

MaxUsers == 2
MaxCalls == 2
MaxProfiles == 2
MaxArtifacts == 1
MaxNow == 36

-----------------------------------------------------------------------------
(* Program constants *)

JWT_SECRET_KEY == "voice-clone-secret-key-2024"
JWT_ALGORITHM == "HS256"
JWT_EXPIRATION_HOURS == 24

None == {}
Some(v) == {v}
TheValue(opt) == CHOOSE v \in opt : TRUE

\* Python truthiness of an Optional[str]: None and "" are falsy
Truthy(opt) == opt # None /\ opt # Some("")

Min(S) == CHOOSE x \in S : \A y \in S : x <= y

-----------------------------------------------------------------------------
(* Values: datetimes, ids, HTTP results *)

Datetime(t) == [dt |-> t]
isoformat(d) == [iso |-> d.dt]
fromisoformat(s) == [dt |-> s.iso]

\* uuid.uuid4(): an identifier no document of the collection carries yet
uuid4(coll) == Len(coll) + 1

HTTPException(status_code, detail) == [status_code |-> status_code, detail |-> detail]
OK(body) == [status_code |-> 200, body |-> body]

\* prepare_for_mongo: datetime values become ISO strings, all else is kept
prepare_for_mongo(data) ==
    [k \in DOMAIN data |->
        CASE k = "created_at" -> isoformat(data[k])
          [] k = "ended_at"   -> {isoformat(d) : d \in data[k]}
          [] OTHER            -> data[k]]

\* parse_from_mongo: ISO strings under created_at / ended_at become datetimes
parse_from_mongo(item) ==
    [k \in DOMAIN item |->
        CASE k = "created_at" -> fromisoformat(item[k])
          [] k = "ended_at"   -> {fromisoformat(s) : s \in item[k]}
          [] OTHER            -> item[k]]

-----------------------------------------------------------------------------
(* The document store.  A query document is a record `all` of field values  *)
(* that must all be equal, and a set `any` of such records of which one     *)
(* must match ("$or"); an empty `any` asks nothing.                         *)

Query(all, any) == [all |-> all, any |-> any]

Matches(d, q) ==
    /\ \A k \in DOMAIN q.all : d[k] = q.all[k]
    /\ q.any = {} \/ \E alt \in q.any : \A k \in DOMAIN alt : d[k] = alt[k]

Matching(coll, q) == {i \in 1..Len(coll) : Matches(coll[i], q)}

\* the first matching document, or None
find_one(coll, q) ==
    IF Matching(coll, q) = {} THEN None ELSE Some(coll[Min(Matching(coll, q))])

\* find(...).to_list(length=None)
find(coll, q) == LET Test(d) == Matches(d, q) IN SelectSeq(coll, Test)

insert_one(coll, doc) == Append(coll, doc)

\* an update that is acknowledged but never applied
update_one_Unapplied(coll, q, set) ==
    [matched_count |-> IF Matching(coll, q) = {} THEN 0 ELSE 1, coll |-> coll]

\* the first matching document gets the fields of `set`; others are untouched
update_one(coll, q, set) ==
    IF Matching(coll, q) = {} THEN [matched_count |-> 0, coll |-> coll]
    ELSE LET i == Min(Matching(coll, q)) IN
         [matched_count |-> 1,
          coll |-> [coll EXCEPT ![i] =
                      [k \in DOMAIN coll[i] |->
                          IF k \in DOMAIN set THEN set[k] ELSE coll[i][k]]]]

\* {"id": id}
IdFilter(id) == Query([id |-> id], {})

\* what the database does with the writes of one request: each of
\* insert_one and update_one is applied, or raises and changes nothing
WritesOK == [insert_one |-> TRUE, update_one |-> TRUE]
Writes == [insert_one : BOOLEAN, update_one : BOOLEAN]

\* the exception a failing write raises
PyMongoError == [message |-> "connection lost"]

\* the answer to a request whose handler let an exception escape
InternalServerError == HTTPException(500, "Internal Server Error")

-----------------------------------------------------------------------------
(* Passwords: a salted one-way hash *)

Salts == {"salt1", "salt2"}

bcrypt(salt, password) == <<"bcrypt", salt, password>>

hash_password_with(salt, password) == [salt |-> salt, digest |-> bcrypt(salt, password)]

\* a check that never looks at the supplied password
verify_password_SaltOnly(plain_password, hashed_password) ==
    hashed_password.digest[2] = hashed_password.salt

verify_password(plain_password, hashed_password) ==
    bcrypt(hashed_password.salt, plain_password) = hashed_password.digest

-----------------------------------------------------------------------------
(* Tokens: HS256-signed JWTs *)

HS256(key, payload) == <<"HS256", key, payload>>

jwt_encode(payload, key, algorithm) ==
    [wellformed |-> TRUE, alg |-> algorithm, payload |-> payload,
     signature |-> HS256(key, payload)]

\* a decode that does not look at the exp claim
jwt_decode_NoExpiry(token, key, algorithms, t) ==
    IF ~token.wellformed THEN [ok |-> FALSE, error |-> "DecodeError"]
    ELSE IF token.alg \notin algorithms THEN [ok |-> FALSE, error |-> "InvalidAlgorithmError"]
    ELSE IF token.signature # <<"HS256", key, token.payload>>
         THEN [ok |-> FALSE, error |-> "InvalidSignatureError"]
    ELSE [ok |-> TRUE, payload |-> token.payload]

\* jwt.decode: structure, algorithm, signature, then the exp claim
jwt_decode(token, key, algorithms, t) ==
    IF ~token.wellformed THEN [ok |-> FALSE, error |-> "DecodeError"]
    ELSE IF token.alg \notin algorithms THEN [ok |-> FALSE, error |-> "InvalidAlgorithmError"]
    ELSE IF token.signature # HS256(key, token.payload)
         THEN [ok |-> FALSE, error |-> "InvalidSignatureError"]
    ELSE IF \E e \in token.payload.exp : e <= t
         THEN [ok |-> FALSE, error |-> "ExpiredSignatureError"]
    ELSE [ok |-> TRUE, payload |-> token.payload]

\* a token whose expiry is its issue time
create_access_token_NoLifetime(data, t) ==
    jwt_encode([sub |-> data.sub, exp |-> Some(t)], JWT_SECRET_KEY, JWT_ALGORITHM)

create_access_token(data, t) ==
    LET expire == t + JWT_EXPIRATION_HOURS
        to_encode == [sub |-> data.sub, exp |-> Some(expire)]
    IN jwt_encode(to_encode, JWT_SECRET_KEY, JWT_ALGORITHM)

\* User(**user_doc): the model ignores extra fields such as password_hash
User(doc) ==
    [id |-> doc.id, username |-> doc.username, email |-> doc.email,
     created_at |-> doc.created_at, voice_profile_id |-> doc.voice_profile_id]

get_current_user(credentials, db_users, t) ==
    LET decoded == jwt_decode(credentials, JWT_SECRET_KEY, {JWT_ALGORITHM}, t) IN
    IF ~decoded.ok THEN [ok |-> FALSE, error |-> HTTPException(401, "Invalid token")]
    ELSE IF decoded.payload.sub = None
         THEN [ok |-> FALSE, error |-> HTTPException(401, "Invalid token")]
    ELSE LET user_id == TheValue(decoded.payload.sub)
             user_doc == find_one(db_users, IdFilter(user_id))
         IN IF user_doc = None
            THEN [ok |-> FALSE, error |-> HTTPException(404, "User not found")]
            ELSE [ok |-> TRUE, user |-> User(parse_from_mongo(TheValue(user_doc)))]

-----------------------------------------------------------------------------
(* Authentication routes *)

UserResponse(user, token) ==
    [id |-> user.id, username |-> user.username, email |-> user.email,
     voice_profile_id |-> user.voice_profile_id, token |-> token]

\* a filter on the wrong field
EmailFilter_ByUsername(email) == Query([username |-> email], {})

\* {"email": email}
EmailFilter(email) == Query([email |-> email], {})

\* POST /auth/register
register(user_data, salt) ==
    LET existing_user == find_one(users, EmailFilter(user_data.email))
    IN
    /\ req' = [op |-> "register", user_data |-> user_data]
    /\ IF existing_user # None
       THEN /\ resp' = HTTPException(400, "Email already registered")
            /\ UNCHANGED stores
       ELSE LET user == [id |-> uuid4(users), username |-> user_data.username,
                         email |-> user_data.email, created_at |-> Datetime(now),
                         voice_profile_id |-> None]
                user_dict == prepare_for_mongo(
                    [id |-> user.id, username |-> user.username, email |-> user.email,
                     created_at |-> user.created_at,
                     voice_profile_id |-> user.voice_profile_id,
                     password_hash |-> hash_password_with(salt, user_data.password)])
                token == create_access_token([sub |-> Some(user.id)], now)
            IN /\ Len(users) < MaxUsers
               /\ users' = insert_one(users, user_dict)
               /\ resp' = OK(UserResponse(user, token))
               /\ UNCHANGED <<voice_profiles, calls, tts_generations, stt_transcriptions>>
    /\ submitted' = <<>>
    /\ UNCHANGED <<ELEVENLABS_AVAILABLE, now, tasks>>

\* POST /auth/login
login(user_data) ==
    LET user_doc == find_one(users, EmailFilter(user_data.email))
    IN
    /\ req' = [op |-> "login", user_data |-> user_data]
    /\ IF user_doc = None
       THEN resp' = HTTPException(401, "Invalid email or password")
       ELSE IF ~verify_password(user_data.password, TheValue(user_doc).password_hash)
       THEN resp' = HTTPException(401, "Invalid email or password")
       ELSE LET user == User(parse_from_mongo(TheValue(user_doc)))
                token == create_access_token([sub |-> Some(user.id)], now)
            IN resp' = OK(UserResponse(user, token))
    /\ submitted' = <<>>
    /\ UNCHANGED <<stores, ELEVENLABS_AVAILABLE, now, tasks>>

\* GET /users/me
get_current_user_info(credentials) ==
    LET auth == get_current_user(credentials, users, now) IN
    /\ req' = [op |-> "get_current_user_info", credentials |-> credentials]
    /\ resp' = IF auth.ok THEN OK(auth.user) ELSE auth.error
    /\ submitted' = <<>>
    /\ UNCHANGED <<stores, ELEVENLABS_AVAILABLE, now, tasks>>

-----------------------------------------------------------------------------
(* Voice routes: the external speech service behind the worker pool *)

\* str.startswith
startswith(str, prefix) ==
    /\ Len(str) >= Len(prefix)
    /\ SubSeq(str, 1, Len(prefix)) = prefix

AudioPrefix == <<"a", "u", "d", "i", "o", "/">>

\* `not file.content_type or not file.content_type.startswith('audio/')`
InvalidFileType(file) ==
    \/ file.content_type = None
    \/ file.content_type = Some(<<>>)
    \/ ~startswith(TheValue(file.content_type), AudioPrefix)

\* str(e) of a caught exception
Str(e) == <<"str", e>>

\* a listing that never looks at the availability flag
get_available_voices_Unchecked(outcome) ==
    /\ req' = [op |-> "get_available_voices"]
    /\ submitted' = <<"voices.get_all">>
    /\ resp' = IF outcome.ok THEN OK([voices |-> outcome.voices])
               ELSE HTTPException(500, <<"Error fetching voices: ", Str(outcome.error)>>)
    /\ UNCHANGED <<stores, ELEVENLABS_AVAILABLE, now, tasks>>

\* GET /voices/available (no authentication)
get_available_voices(outcome) ==
    /\ req' = [op |-> "get_available_voices"]
    /\ IF ~ELEVENLABS_AVAILABLE
       THEN /\ resp' = HTTPException(503, "ElevenLabs service not available")
            /\ submitted' = <<>>
       ELSE /\ submitted' = <<"voices.get_all">>
            /\ resp' = IF outcome.ok THEN OK([voices |-> outcome.voices])
                       ELSE HTTPException(500, <<"Error fetching voices: ", Str(outcome.error)>>)
    /\ UNCHANGED <<stores, ELEVENLABS_AVAILABLE, now, tasks>>

\* a clone that stores the profile but never sets the active-profile pointer
clone_voice_result_NoPointer(db_users, db_profiles, voice_name, description, files, current_user, outcome, t) ==
    LET bad == {i \in 1..Len(files) : InvalidFileType(files[i])}
        voice_profile ==
            [id |-> uuid4(db_profiles), user_id |-> current_user.id,
             name |-> voice_name, voice_id |-> Some(outcome.voice_id),
             voice_data |-> [description |-> description,
                             elevenlabs_voice_id |-> outcome.voice_id,
                             samples_count |-> Len(files)],
             samples_count |-> Len(files), training_status |-> "ready",
             created_at |-> Datetime(t), is_active |-> TRUE]
    IN IF bad # {} \/ ~outcome.ok
       THEN [users |-> db_users, voice_profiles |-> db_profiles,
             submitted |-> IF bad # {} THEN <<>> ELSE <<"clone">>,
             resp |-> HTTPException(500,
                          <<"Error cloning voice: ",
                            Str(IF bad # {}
                                THEN HTTPException(400, <<"Invalid file type: ",
                                                         files[Min(bad)].filename>>)
                                ELSE outcome.error)>>)]
       ELSE [users |-> db_users,
             voice_profiles |-> insert_one(db_profiles, prepare_for_mongo(voice_profile)),
             submitted |-> <<"clone">>,
             resp |-> OK([voice_id |-> outcome.voice_id, name |-> voice_name,
                          status |-> "ready", message |-> "Voice cloned successfully"])]

\* POST /voices/clone, after authentication and the availability check:
\* the try block (validation loop, external call, two writes, either of
\* which may raise) and its `except Exception` handler
clone_voice_result(db_users, db_profiles, voice_name, description, files, current_user, outcome, t) ==
    LET bad == {i \in 1..Len(files) : InvalidFileType(files[i])}
        voice_profile ==
            [id |-> uuid4(db_profiles), user_id |-> current_user.id,
             name |-> voice_name, voice_id |-> Some(outcome.voice_id),
             voice_data |-> [description |-> description,
                             elevenlabs_voice_id |-> outcome.voice_id,
                             samples_count |-> Len(files)],
             samples_count |-> Len(files), training_status |-> "ready",
             created_at |-> Datetime(t), is_active |-> TRUE]
        \* what the try block does: either it raises, or it runs to its return
        try ==
            IF bad # {}
            THEN [raised |-> TRUE, submitted |-> <<>>,
                  exc |-> HTTPException(400,
                              <<"Invalid file type: ", files[Min(bad)].filename>>)]
            ELSE IF ~outcome.ok
            THEN [raised |-> TRUE, submitted |-> <<"clone">>, exc |-> outcome.error]
            ELSE IF ~outcome.writes.insert_one \/ ~outcome.writes.update_one
            THEN [raised |-> TRUE, submitted |-> <<"clone">>, exc |-> PyMongoError]
            ELSE [raised |-> FALSE, submitted |-> <<"clone">>]
        \* the insert was applied before the exception was raised
        inserted == bad = {} /\ outcome.ok /\ outcome.writes.insert_one
    IN IF try.raised
       THEN [users |-> db_users,
             voice_profiles |-> IF inserted
                                THEN insert_one(db_profiles, prepare_for_mongo(voice_profile))
                                ELSE db_profiles,
             submitted |-> try.submitted,
             resp |-> HTTPException(500, <<"Error cloning voice: ", Str(try.exc)>>)]
       ELSE [users |-> update_one(db_users, IdFilter(current_user.id),
                          [voice_profile_id |-> Some(voice_profile.id)]).coll,
             voice_profiles |-> insert_one(db_profiles, prepare_for_mongo(voice_profile)),
             submitted |-> try.submitted,
             resp |-> OK([voice_id |-> outcome.voice_id, name |-> voice_name,
                          status |-> "ready", message |-> "Voice cloned successfully"])]

clone_voice(voice_name, description, files, credentials, outcome) ==
    LET auth == get_current_user(credentials, users, now) IN
    /\ req' = [op |-> "clone_voice", voice_name |-> voice_name,
               description |-> description, files |-> files,
               credentials |-> credentials, outcome |-> outcome]
    /\ IF ~auth.ok
       THEN /\ resp' = auth.error
            /\ submitted' = <<>>
            /\ UNCHANGED <<users, voice_profiles>>
       ELSE IF ~ELEVENLABS_AVAILABLE
       THEN /\ resp' = HTTPException(503, "ElevenLabs service not available")
            /\ submitted' = <<>>
            /\ UNCHANGED <<users, voice_profiles>>
       ELSE LET r == clone_voice_result(users, voice_profiles, voice_name, description,
                                        files, auth.user, outcome, now) IN
            /\ Len(r.voice_profiles) <= MaxProfiles
            /\ users' = r.users
            /\ voice_profiles' = r.voice_profiles
            /\ submitted' = r.submitted
            /\ resp' = r.resp
    /\ UNCHANGED <<calls, tts_generations, stt_transcriptions, ELEVENLABS_AVAILABLE, now, tasks>>

\* a request model that bounds stability only
TTSRequestValid_StabilityOnly(request) ==
    0 <= request.stability /\ request.stability <= 10

\* TTSRequest: stability, similarity_boost and style within [0.0, 1.0],
\* counted here in tenths
TTSRequestValid(request) ==
    /\ 0 <= request.stability /\ request.stability <= 10
    /\ 0 <= request.similarity_boost /\ request.similarity_boost <= 10
    /\ 0 <= request.style /\ request.style <= 10

b64encode(data) == [b64 |-> data]

RECURSIVE Concat(_)
Concat(chunks) ==
    IF chunks = <<>> THEN <<>> ELSE Head(chunks) \o Concat(Tail(chunks))

\* POST /tts/generate
generate_tts(request, credentials, outcome) ==
    LET auth == get_current_user(credentials, users, now)
        tts_response ==
            [audio_url |-> <<"data:audio/mpeg;base64,", b64encode(Concat(outcome.chunks))>>,
             text |-> request.text, voice_id |-> request.voice_id,
             generation_id |-> uuid4(tts_generations), created_at |-> Datetime(now)]
    IN
    /\ req' = [op |-> "generate_tts", request |-> request,
               credentials |-> credentials, outcome |-> outcome]
    /\ IF ~auth.ok
       THEN /\ resp' = auth.error
            /\ submitted' = <<>>
            /\ UNCHANGED tts_generations
       ELSE IF ~TTSRequestValid(request)
       THEN /\ resp' = HTTPException(422, "validation error")
            /\ submitted' = <<>>
            /\ UNCHANGED tts_generations
       ELSE IF ~ELEVENLABS_AVAILABLE
       THEN /\ resp' = HTTPException(503, "ElevenLabs service not available")
            /\ submitted' = <<>>
            /\ UNCHANGED tts_generations
       ELSE IF ~outcome.ok
       THEN /\ resp' = HTTPException(500, <<"Error generating TTS: ", Str(outcome.error)>>)
            /\ submitted' = <<"generate">>
            /\ UNCHANGED tts_generations
       ELSE /\ Len(tts_generations) + Len(stt_transcriptions) < MaxArtifacts
            /\ submitted' = <<"generate">>
            /\ tts_generations' = insert_one(tts_generations, prepare_for_mongo(tts_response))
            /\ resp' = OK(tts_response)
    /\ UNCHANGED <<users, voice_profiles, calls, stt_transcriptions,
                   ELEVENLABS_AVAILABLE, now, tasks>>

\* an extraction whose fallback prints another object than the response
transcribed_text_of_OtherFallback(transcription_response) ==
    IF transcription_response.text # None
    THEN TheValue(transcription_response.text)
    ELSE Str([transcription_response EXCEPT !.ok = FALSE])

\* `response.text if hasattr(response, 'text') else str(response)`
transcribed_text_of(transcription_response) ==
    IF transcription_response.text # None
    THEN TheValue(transcription_response.text) ELSE Str(transcription_response)

\* POST /stt/transcribe
transcribe_audio(audio_file, credentials, outcome) ==
    LET auth == get_current_user(credentials, users, now)
        transcribed_text == transcribed_text_of(outcome)
        stt_response ==
            [transcribed_text |-> transcribed_text,
             filename |-> IF Truthy(audio_file.filename)
                          THEN TheValue(audio_file.filename) ELSE "unknown.audio",
             transcription_id |-> uuid4(stt_transcriptions),
             created_at |-> Datetime(now)]
    IN
    /\ req' = [op |-> "transcribe_audio", audio_file |-> audio_file,
               credentials |-> credentials, outcome |-> outcome]
    /\ IF ~auth.ok
       THEN /\ resp' = auth.error
            /\ submitted' = <<>>
            /\ UNCHANGED stt_transcriptions
       ELSE IF ~ELEVENLABS_AVAILABLE
       THEN /\ resp' = HTTPException(503, "ElevenLabs service not available")
            /\ submitted' = <<>>
            /\ UNCHANGED stt_transcriptions
       ELSE IF ~outcome.ok
       THEN /\ resp' = HTTPException(500, <<"Error transcribing audio: ", Str(outcome.error)>>)
            /\ submitted' = <<"speech_to_text.convert">>
            /\ UNCHANGED stt_transcriptions
       ELSE /\ Len(tts_generations) + Len(stt_transcriptions) < MaxArtifacts
            /\ submitted' = <<"speech_to_text.convert">>
            /\ stt_transcriptions' =
                   insert_one(stt_transcriptions, prepare_for_mongo(stt_response))
            /\ resp' = OK(stt_response)
    /\ UNCHANGED <<users, voice_profiles, calls, tts_generations,
                   ELEVENLABS_AVAILABLE, now, tasks>>

-----------------------------------------------------------------------------
(* Voice profile routes *)

DefaultVoiceData ==
    [model |-> "nova", voice |-> "alloy", response_format |-> "pcm16",
     instructions |-> "You are a helpful assistant that speaks clearly and naturally."]

\* POST /voice-profiles
create_voice_profile(profile_data, credentials, writes) ==
    LET auth == get_current_user(credentials, users, now)
        profile ==
            [id |-> uuid4(voice_profiles), user_id |-> auth.user.id,
             name |-> profile_data.name, voice_id |-> None,
             voice_data |-> IF profile_data.voice_data # None
                            THEN TheValue(profile_data.voice_data) ELSE DefaultVoiceData,
             samples_count |-> 0, training_status |-> "untrained",
             created_at |-> Datetime(now), is_active |-> TRUE]
    IN
    /\ req' = [op |-> "create_voice_profile", profile_data |-> profile_data,
               credentials |-> credentials, writes |-> writes]
    /\ IF ~auth.ok
       THEN /\ resp' = auth.error
            /\ UNCHANGED <<users, voice_profiles>>
       ELSE IF ~writes.insert_one
       THEN /\ resp' = InternalServerError
            /\ UNCHANGED <<users, voice_profiles>>
       ELSE IF ~writes.update_one
       THEN /\ Len(voice_profiles) < MaxProfiles
            /\ voice_profiles' = insert_one(voice_profiles, prepare_for_mongo(profile))
            /\ resp' = InternalServerError
            /\ UNCHANGED users
       ELSE /\ Len(voice_profiles) < MaxProfiles
            /\ voice_profiles' = insert_one(voice_profiles, prepare_for_mongo(profile))
            /\ users' = update_one(users, IdFilter(auth.user.id),
                            [voice_profile_id |-> Some(profile.id)]).coll
            /\ resp' = OK(profile)
    /\ submitted' = <<>>
    /\ UNCHANGED <<calls, tts_generations, stt_transcriptions, ELEVENLABS_AVAILABLE, now, tasks>>

\* GET /voice-profiles
get_voice_profiles(credentials) ==
    LET auth == get_current_user(credentials, users, now)
        profiles == find(voice_profiles, Query([user_id |-> auth.user.id], {}))
    IN
    /\ req' = [op |-> "get_voice_profiles", credentials |-> credentials]
    /\ resp' = IF ~auth.ok THEN auth.error
               ELSE OK([i \in 1..Len(profiles) |-> parse_from_mongo(profiles[i])])
    /\ submitted' = <<>>
    /\ UNCHANGED <<stores, ELEVENLABS_AVAILABLE, now, tasks>>

-----------------------------------------------------------------------------
(* Call management routes *)

\* a filter that forgets the participant clause
CallFilter_IdOnly(call_id, user_id) == IdFilter(call_id)

\* {"id": call_id, "$or": [{"caller_id": user_id}, {"receiver_id": user_id}]}
CallFilter(call_id, user_id) ==
    Query([id |-> call_id],
          {[caller_id |-> user_id], [receiver_id |-> Some(user_id)]})

\* a listing filter that forgets the receiver clause
ParticipantFilter_CallerOnly(user_id) == Query([caller_id |-> user_id], {})

\* {"$or": [{"caller_id": user_id}, {"receiver_id": user_id}]}
ParticipantFilter(user_id) ==
    Query(<<>>, {[caller_id |-> user_id], [receiver_id |-> Some(user_id)]})

\* POST /calls, after authentication
create_call_result(db_users, db_calls, call_data, current_user, t) ==
    LET call == [id |-> uuid4(db_calls), caller_id |-> current_user.id,
                 receiver_id |-> None, call_type |-> call_data.call_type,
                 status |-> "waiting", room_id |-> uuid4(db_calls),
                 created_at |-> Datetime(t), ended_at |-> None,
                 voice_settings |-> call_data.voice_settings]
        receiver == IF Truthy(call_data.receiver_email)
                    THEN find_one(db_users, EmailFilter(TheValue(call_data.receiver_email)))
                    ELSE None
        resolved == IF receiver # None
                    THEN [call EXCEPT !.receiver_id = Some(TheValue(receiver).id)]
                    ELSE call
    IN [calls |-> insert_one(db_calls, prepare_for_mongo(resolved)),
        resp |-> OK(resolved)]

create_call(call_data, credentials) ==
    LET auth == get_current_user(credentials, users, now) IN
    /\ req' = [op |-> "create_call", call_data |-> call_data, credentials |-> credentials]
    /\ IF ~auth.ok
       THEN /\ resp' = auth.error
            /\ UNCHANGED calls
       ELSE LET r == create_call_result(users, calls, call_data, auth.user, now) IN
            /\ Len(calls) < MaxCalls
            /\ calls' = r.calls
            /\ resp' = r.resp
    /\ submitted' = <<>>
    /\ UNCHANGED <<users, voice_profiles, tts_generations, stt_transcriptions,
                   ELEVENLABS_AVAILABLE, now, tasks>>

\* GET /calls
get_calls(credentials) ==
    LET auth == get_current_user(credentials, users, now)
        found == find(calls, ParticipantFilter(auth.user.id))
    IN
    /\ req' = [op |-> "get_calls", credentials |-> credentials]
    /\ resp' = IF ~auth.ok THEN auth.error
               ELSE OK([i \in 1..Len(found) |-> parse_from_mongo(found[i])])
    /\ submitted' = <<>>
    /\ UNCHANGED <<stores, ELEVENLABS_AVAILABLE, now, tasks>>

\* a Join that only matches sessions still waiting
join_call_result_WaitingOnly(db_calls, call_id, current_user) ==
    LET filter == Query([id |-> call_id, status |-> "waiting"],
                        CallFilter(call_id, current_user.id).any)
        result == update_one(db_calls, filter, [status |-> "active"])
    IN [calls |-> result.coll,
        resp |-> IF result.matched_count = 0
                 THEN HTTPException(404, "Call not found")
                 ELSE OK([status |-> "joined"])]

\* a Join that seats the joining identity as the receiver of the session
join_call_result_SeatsRequester(db_calls, call_id, current_user) ==
    LET filter == Query([id |-> call_id],
                        CallFilter(call_id, current_user.id).any
                            \cup {[receiver_id |-> None]})
        result == update_one(db_calls, filter,
                             [status |-> "active",
                              receiver_id |-> Some(current_user.id)])
    IN [calls |-> result.coll,
        resp |-> IF result.matched_count = 0
                 THEN HTTPException(404, "Call not found")
                 ELSE OK([status |-> "joined"])]

\* PATCH /calls/{call_id}/join, after authentication
join_call_result(db_calls, call_id, current_user) ==
    LET result == update_one(db_calls, CallFilter(call_id, current_user.id),
                             [status |-> "active"])
    IN [calls |-> result.coll,
        resp |-> IF result.matched_count = 0
                 THEN HTTPException(404, "Call not found")
                 ELSE OK([status |-> "joined"])]

join_call(call_id, credentials) ==
    LET auth == get_current_user(credentials, users, now) IN
    /\ req' = [op |-> "join_call", call_id |-> call_id, credentials |-> credentials]
    /\ IF ~auth.ok
       THEN /\ resp' = auth.error
            /\ UNCHANGED calls
       ELSE LET r == join_call_result(calls, call_id, auth.user) IN
            /\ calls' = r.calls
            /\ resp' = r.resp
    /\ submitted' = <<>>
    /\ UNCHANGED <<users, voice_profiles, tts_generations, stt_transcriptions,
                   ELEVENLABS_AVAILABLE, now, tasks>>

\* an End that is fenced on the status: it matches sessions still waiting
end_call_result_Fenced(db_calls, call_id, current_user, t) ==
    LET filter == Query([id |-> call_id, status |-> "waiting"],
                        CallFilter(call_id, current_user.id).any)
        result == update_one(db_calls, filter,
                      [status |-> "ended", ended_at |-> Some(isoformat(Datetime(t)))])
    IN [calls |-> result.coll,
        resp |-> IF result.matched_count = 0
                 THEN HTTPException(404, "Call not found")
                 ELSE OK([status |-> "ended"])]

\* PATCH /calls/{call_id}/end, after authentication
end_call_result(db_calls, call_id, current_user, t) ==
    LET result == update_one(db_calls, CallFilter(call_id, current_user.id),
                      [status |-> "ended", ended_at |-> Some(isoformat(Datetime(t)))])
    IN [calls |-> result.coll,
        resp |-> IF result.matched_count = 0
                 THEN HTTPException(404, "Call not found")
                 ELSE OK([status |-> "ended"])]

end_call(call_id, credentials) ==
    LET auth == get_current_user(credentials, users, now) IN
    /\ req' = [op |-> "end_call", call_id |-> call_id, credentials |-> credentials]
    /\ IF ~auth.ok
       THEN /\ resp' = auth.error
            /\ UNCHANGED calls
       ELSE LET r == end_call_result(calls, call_id, auth.user, now) IN
            /\ calls' = r.calls
            /\ resp' = r.resp
    /\ submitted' = <<>>
    /\ UNCHANGED <<users, voice_profiles, tts_generations, stt_transcriptions,
                   ELEVENLABS_AVAILABLE, now, tasks>>

-----------------------------------------------------------------------------
(* The environment: clock, request inputs *)

\* time passes
Tick(hours) ==
    /\ now + hours <= MaxNow
    /\ now' = now + hours
    /\ req' = [op |-> "tick"]
    /\ resp' = [status_code |-> 0]
    /\ submitted' = <<>>
    /\ UNCHANGED <<stores, ELEVENLABS_AVAILABLE, tasks>>

-----------------------------------------------------------------------------
(* Request inputs *)

Emails == {"alice@example.com", "bob@example.com", ""}

UserCreate == [username : {"alice", "bob"}, email : Emails, password : {"pw1", "pw2"}]
UserLogin == [email : Emails, password : {"pw1", "pw2"}]

\* Two fixed registrants, for the runs that are not about registration
Alice == [username |-> "alice", email |-> "alice@example.com", password |-> "pw1"]
Bob == [username |-> "bob", email |-> "bob@example.com", password |-> "pw2"]

\* Bearer tokens a client may present at time t when n identities are stored.
\* Identity 0 is never stored.
Subs(n) == {None} \cup {Some(i) : i \in 0..n}
Payloads(t, n) ==
    [sub : Subs(n),
     exp : {None} \cup {Some(e) : e \in {t - 12, t, t + 12, t + JWT_EXPIRATION_HOURS}}]

\* signed with the process secret
AuthenticTokens(t, n) ==
    {jwt_encode(p, JWT_SECRET_KEY, JWT_ALGORITHM) : p \in Payloads(t, n)}

\* signed with some other key
ForgedTokens(t, n) ==
    {jwt_encode([sub |-> s, exp |-> Some(t + JWT_EXPIRATION_HOURS)],
                "attacker-key", JWT_ALGORITHM) : s \in Subs(n)}

\* an issued token whose payload was rewritten, or whose algorithm was set to none
TamperedTokens(t, n) ==
    LET issued == jwt_encode([sub |-> Some(n), exp |-> Some(t)],
                             JWT_SECRET_KEY, JWT_ALGORITHM)
    IN {[issued EXCEPT !.payload = p] :
            p \in {q \in Payloads(t, n) : q # issued.payload /\ q.exp # None}}
       \cup {[jwt_encode(p, JWT_SECRET_KEY, JWT_ALGORITHM) EXCEPT !.alg = "none"] :
                p \in {q \in Payloads(t, n) : q.exp = Some(t + JWT_EXPIRATION_HOURS)}}

GarbageToken == [wellformed |-> FALSE, raw |-> "invalid_token_12345"]

AllCredentials(t, n) ==
    AuthenticTokens(t, n) \cup ForgedTokens(t, n) \cup TamperedTokens(t, n)
        \cup {GarbageToken}

\* the token register or login returns to identity i at time t
IssuedToken(i, t) == create_access_token([sub |-> Some(i)], t)

CallCreate ==
    [receiver_email : {None} \cup {Some(e) : e \in Emails},
     call_type : {"voice_clone", "plain"},
     voice_settings : {None, Some([stability |-> 5])}]

\* calls that differ in the receiver only
PlainCallCreate ==
    {c \in CallCreate : c.call_type = "voice_clone" /\ c.voice_settings = None}

CallIds == 0..MaxCalls

Init ==
    /\ users = <<>>
    /\ voice_profiles = <<>>
    /\ calls = <<>>
    /\ tts_generations = <<>>
    /\ stt_transcriptions = <<>>
    /\ ELEVENLABS_AVAILABLE \in BOOLEAN
    /\ submitted = <<>>
    /\ now = 0
    /\ req = [op |-> "startup"]
    /\ resp = [status_code |-> 0]
    /\ tasks = <<>>

-----------------------------------------------------------------------------
(* Call sessions: Alice registers, then Bob; Alice creates calls, inviting  *)
(* Bob or nobody; both (and a client with a garbage token) list, join and   *)
(* end calls while time passes.                                             *)

RegisterFixed == register(IF Len(users) = 0 THEN Alice ELSE Bob, "salt1")

\* the fresh token of every stored identity, and garbage
CallCredentials == {IssuedToken(i, now) : i \in 1..Len(users)} \cup {GarbageToken}

CallInputs ==
    {c \in PlainCallCreate : c.receiver_email \in {None, Some(Bob.email)}}

CreateCall ==
    \E d \in CallInputs : Len(users) > 0 /\ create_call(d, IssuedToken(1, now))

GetCalls == \E c \in CallCredentials : get_calls(c)

JoinCall == \E id \in CallIds, c \in CallCredentials : join_call(id, c)

EndCall == \E id \in CallIds, c \in CallCredentials : end_call(id, c)

InitCalls == Init /\ ELEVENLABS_AVAILABLE

NextCalls ==
    \/ RegisterFixed
    \/ CreateCall
    \/ GetCalls
    \/ JoinCall
    \/ EndCall
    \/ Tick(MaxNow)

SpecCalls == InitCalls /\ [][NextCalls]_vars

\* the identity a request's credentials resolve to, if any
Requester(r) == get_current_user(r.credentials, users, now)

\* the identity is the caller or the receiver of the stored call
IsParticipant(d, user_id) ==
    d.caller_id = user_id \/ d.receiver_id = Some(user_id)

\* the stored calls with the given id
CallsWithId(id) == {i \in 1..Len(calls) : calls[i].id = id}

NotFound == HTTPException(404, "Call not found")

\* C1: once a session's status is `ended`, no later step changes its status
\* or its end timestamp.
C1_EndedIsTerminal ==
    [][\A i \in 1..Len(calls) :
          calls[i].status = "ended" =>
              /\ calls'[i].status = "ended"
              /\ calls'[i].ended_at = calls[i].ended_at]_vars

\* C2: an End on a session that is already `ended` fails with the not-found
\* error, whoever (authenticated) sends it.
C2_EndExactlyOnce ==
    [][(/\ req'.op = "end_call"
        /\ Requester(req').ok
        /\ \E i \in CallsWithId(req'.call_id) : calls[i].status = "ended")
       => resp' = NotFound]_vars

\* C3: a Join or End by an authenticated requester who is neither caller nor
\* receiver of an existing session gets exactly the response the same
\* operation gives for a session id that no session has, and changes no
\* stored session.
C3_AuthorizationAsNotFound ==
    [][(/\ req'.op \in {"join_call", "end_call"}
        /\ Requester(req').ok
        /\ CallsWithId(req'.call_id) # {}
        /\ \A i \in CallsWithId(req'.call_id) :
              ~IsParticipant(calls[i], Requester(req').user.id))
       => /\ calls' = calls
          /\ resp' = IF req'.op = "join_call"
                     THEN join_call_result(calls, 0, Requester(req').user).resp
                     ELSE end_call_result(calls, 0, Requester(req').user, now).resp
          /\ resp'.status_code = 404]_vars

C3_Witness ==
    /\ req.op = "end_call"
    /\ Requester(req).ok
    /\ \E i \in CallsWithId(req.call_id) :
          /\ ~IsParticipant(calls[i], Requester(req).user.id)
          /\ calls[i].status = "active"
    /\ resp = NotFound
    /\ Len(calls) = 2

\* C4: a Join by an authenticated requester succeeds exactly when a session
\* with that id exists and the requester is its caller or receiver; after a
\* successful Join the session is `active`, whether it was `waiting` or
\* already `active` before.
C4_JoinIffParticipant ==
    [][(req'.op = "join_call" /\ Requester(req').ok)
       => /\ (resp'.status_code = 200) <=>
                 \E i \in CallsWithId(req'.call_id) :
                     IsParticipant(calls[i], Requester(req').user.id)
          /\ resp'.status_code = 200 =>
                 /\ resp' = OK([status |-> "joined"])
                 /\ \A i \in CallsWithId(req'.call_id) : calls'[i].status = "active"
          /\ \A i \in 1..Len(calls) :
                 calls[i].id # req'.call_id => calls'[i] = calls[i]]_vars

\* the resolved receiver's Join has succeeded and the session is active
C4_Witness ==
    /\ req.op = "join_call"
    /\ resp.status_code = 200
    /\ \E i \in CallsWithId(req.call_id) :
          /\ calls[i].receiver_id = Some(Requester(req).user.id)
          /\ calls[i].status = "active"
          /\ calls[i].ended_at = None

\* C27: no step changes the id, caller, receiver, kind, room, voice settings
\* or creation time of a stored session, or removes a session; a Join or End
\* leaves every session but the addressed one as it was and adds none; and a
\* Join or End by an identity that is not the caller of an addressed session
\* whose receiver is absent is answered not-found and changes nothing,
\* however late that identity registered.
C27_JoinEndFrame ==
    [][/\ Len(calls') >= Len(calls)
       /\ \A i \in 1..Len(calls) :
              /\ calls'[i].id = calls[i].id
              /\ calls'[i].caller_id = calls[i].caller_id
              /\ calls'[i].receiver_id = calls[i].receiver_id
              /\ calls'[i].call_type = calls[i].call_type
              /\ calls'[i].room_id = calls[i].room_id
              /\ calls'[i].voice_settings = calls[i].voice_settings
              /\ calls'[i].created_at = calls[i].created_at
       /\ req'.op \in {"join_call", "end_call"} =>
              /\ Len(calls') = Len(calls)
              /\ \A i \in 1..Len(calls) :
                     calls[i].id # req'.call_id => calls'[i] = calls[i]
              /\ (/\ Requester(req').ok
                  /\ \A i \in CallsWithId(req'.call_id) :
                        /\ calls[i].receiver_id = None
                        /\ calls[i].caller_id # Requester(req').user.id)
                 => (resp' = NotFound /\ calls' = calls)]_vars

\* Bob registered after the session was created with no receiver resolved;
\* his End of it was answered not-found and the session is as created
C27_Witness ==
    /\ req.op = "end_call"
    /\ Requester(req).ok
    /\ Requester(req).user.email = Bob.email
    /\ resp = NotFound
    /\ \E i \in CallsWithId(req.call_id) :
          /\ calls[i].receiver_id = None
          /\ calls[i].status = "waiting"
          /\ calls[i].created_at.iso < users[2].created_at.iso

\* C26: in every state a session carries an end timestamp exactly when its
\* status is `ended`.
C26_EndTimestampTracksStatus ==
    \A i \in 1..Len(calls) :
        (calls[i].ended_at # None) <=> (calls[i].status = "ended")

-----------------------------------------------------------------------------
(* Credentials: clients register and log in under two emails with varying   *)
(* usernames, passwords and salts, and present every kind of bearer token   *)
(* to GET /users/me while time passes in steps of half the token lifetime.  *)

AuthUserCreate == {d \in UserCreate : d.email \in {Alice.email, Bob.email}}

Register == \E d \in AuthUserCreate, salt \in Salts : register(d, salt)

Login == \E d \in UserLogin : login(d)

GetMe == \E c \in AllCredentials(now, Len(users)) : get_current_user_info(c)

NextAuth ==
    \/ Register
    \/ Login
    \/ GetMe
    \/ Tick(JWT_EXPIRATION_HOURS \div 2)

SpecAuth == InitCalls /\ [][NextAuth]_vars

\* the stored identities with the given email
UsersWithEmail(email) == {i \in 1..Len(users) : users[i].email = email}

\* C5: a Register whose email already belongs to a stored identity fails with
\* the Conflict error (400, "Email already registered"), stores nothing and
\* returns no token.
C5_DuplicateEmailConflict ==
    [][(req'.op = "register" /\ UsersWithEmail(req'.user_data.email) # {})
       => /\ resp' = HTTPException(400, "Email already registered")
          /\ users' = users]_vars

\* a registration was refused although its username and password both differ
\* from those of the identity that holds the email
C5_Witness ==
    /\ req.op = "register"
    /\ resp.status_code = 400
    /\ \E i \in UsersWithEmail(req.user_data.email) :
          /\ users[i].username # req.user_data.username
          /\ users[i].password_hash.digest[3] # req.user_data.password

\* C7: after a successful register or login, the token in the response,
\* presented at any hour from now until just before its expiry, authenticates
\* and resolves to the identity id that the response reports, which is the id
\* stored under the request's email.
C7_IssueVerifyRoundTrip ==
    (req.op \in {"register", "login"} /\ resp.status_code = 200)
    => /\ \E i \in UsersWithEmail(req.user_data.email) : users[i].id = resp.body.id
       /\ resp.body.token.payload.exp = Some(now + JWT_EXPIRATION_HOURS)
       /\ \A t \in now..(now + JWT_EXPIRATION_HOURS - 1) :
              LET auth == get_current_user(resp.body.token, users, t) IN
              /\ auth.ok
              /\ auth.user.id = resp.body.id
              /\ auth.user.email = req.user_data.email

\* a login, later than the registration, has returned a token for the
\* second identity
C7_Witness ==
    /\ req.op = "login"
    /\ resp.status_code = 200
    /\ resp.body.id = 2
    /\ now > 0
    /\ get_current_user(resp.body.token, users, now).ok

\* C8: a Login succeeds exactly when an identity with the supplied email is
\* stored and the supplied password is the one its hash was made from; it
\* then returns that identity and a token for it.  Every failed Login returns
\* the same 401 error and changes no stored state.
C8_LoginIffPasswordVerifies ==
    [][req'.op = "login"
       => LET d == req'.user_data
              good == {i \in UsersWithEmail(d.email) :
                          users[i].password_hash.digest =
                              bcrypt(users[i].password_hash.salt, d.password)}
          IN /\ (resp'.status_code = 200) <=> (good # {})
             /\ resp'.status_code = 200 =>
                    /\ \E i \in good : resp'.body.id = users[i].id
                    /\ resp'.body.email = d.email
                    /\ resp'.body.token = IssuedToken(resp'.body.id, now)
             /\ resp'.status_code # 200 =>
                    resp' = HTTPException(401, "Invalid email or password")
             /\ UNCHANGED stores]_vars

\* a login with the right email and the wrong password was refused
C8_Witness ==
    /\ req.op = "login"
    /\ resp = HTTPException(401, "Invalid email or password")
    /\ UsersWithEmail(req.user_data.email) # {}
    /\ Len(users) = 2

-----------------------------------------------------------------------------
(* Voice cloning: the two registrants create profiles and submit uploads    *)
(* of audio and non-audio files; the external clone call succeeds or fails. *)


Wav == [filename |-> "sample1.wav", content_type |-> Some(<<"a", "u", "d", "i", "o", "/", "w", "a", "v">>)]
Mp3 == [filename |-> "sample2.mp3", content_type |-> Some(<<"a", "u", "d", "i", "o", "/", "m", "p", "e", "g">>)]
Txt == [filename |-> "notes.txt", content_type |-> Some(<<"t", "e", "x", "t", "/", "p", "l", "a", "i", "n">>)]
Bare == [filename |-> "sample3", content_type |-> Some(<<"a", "u", "d", "i", "o">>)]
Untyped == [filename |-> "blob", content_type |-> None]
EmptyType == [filename |-> "empty", content_type |-> Some(<<>>)]

Uploads ==
    {<<Wav>>, <<Wav, Mp3, Wav>>, <<Wav, Txt, Mp3>>, <<Untyped>>,
     <<Wav, Bare>>, <<EmptyType, Txt>>}

CloneOutcomes ==
    {[ok |-> TRUE, voice_id |-> "voice-1", writes |-> WritesOK],
     [ok |-> TRUE, voice_id |-> "voice-2", writes |-> WritesOK],
     [ok |-> FALSE, error |-> [message |-> "quota exceeded"]]}

ProfileInputs == {[name |-> "default voice", voice_data |-> None]}

CloneVoice ==
    \E files \in Uploads, c \in CallCredentials, outcome \in CloneOutcomes :
        clone_voice("my voice", "", files, c, outcome)

CreateVoiceProfile ==
    \E d \in ProfileInputs, c \in CallCredentials : create_voice_profile(d, c, WritesOK)

GetVoiceProfiles == \E c \in CallCredentials : get_voice_profiles(c)

GetAvailableVoices ==
    \E outcome \in {[ok |-> TRUE, voices |-> <<"voice-1">>],
                    [ok |-> FALSE, error |-> [message |-> "quota exceeded"]]} :
        get_available_voices(outcome)

NextVoice ==
    \/ RegisterFixed
    \/ CloneVoice
    \/ CreateVoiceProfile
    \/ GetVoiceProfiles
    \/ GetAvailableVoices

SpecVoice == Init /\ [][NextVoice]_vars

\* an upload in which some sample lacks an audio content type
HasNonAudioSample(files) ==
    \E i \in 1..Len(files) :
        \/ files[i].content_type = None
        \/ \E ct \in files[i].content_type :
              Len(ct) < 6 \/ SubSeq(ct, 1, 6) # <<"a", "u", "d", "i", "o", "/">>

\* a clone request that passed authentication and the availability check
CloneServed(r) == r.op = "clone_voice" /\ Requester(r).ok /\ ELEVENLABS_AVAILABLE

\* C9: a clone request with a sample that lacks an audio content type fails
\* with InvalidInput (400), submits no external call, stores no profile and
\* leaves the active-profile pointers alone.
C9_NonAudioSampleIsInvalidInput ==
    [][(CloneServed(req') /\ HasNonAudioSample(req'.files))
       => /\ resp'.status_code = 400
          /\ submitted' = <<>>
          /\ voice_profiles' = voice_profiles
          /\ users' = users]_vars

\* C10: when the external clone call fails the request fails with an
\* external-service error (500 carrying the underlying message) and neither
\* profiles nor identities change; when it succeeds exactly one profile is
\* appended (status ready, owned by the requester, bound to the returned
\* voice id) and the requester's active-profile pointer is set to its id,
\* the other identities being untouched.
C10_CloneOutcome ==
    [][(CloneServed(req') /\ ~HasNonAudioSample(req'.files))
       => LET me == Requester(req').user.id
              outcome == req'.outcome
          IN /\ submitted' = <<"clone">>
             /\ ~outcome.ok =>
                    /\ resp' = HTTPException(500,
                                   <<"Error cloning voice: ", Str(outcome.error)>>)
                    /\ voice_profiles' = voice_profiles
                    /\ users' = users
             /\ outcome.ok =>
                    /\ resp'.status_code = 200
                    /\ resp'.body.voice_id = outcome.voice_id
                    /\ Len(voice_profiles') = Len(voice_profiles) + 1
                    /\ SubSeq(voice_profiles', 1, Len(voice_profiles)) = voice_profiles
                    /\ LET new == voice_profiles'[Len(voice_profiles')] IN
                       /\ new.training_status = "ready"
                       /\ new.user_id = me
                       /\ new.voice_id = Some(outcome.voice_id)
                       /\ \A i \in 1..Len(voice_profiles) : voice_profiles[i].id # new.id
                       /\ \A i \in 1..Len(users) :
                             IF users[i].id = me
                             THEN users'[i] =
                                      [users[i] EXCEPT !.voice_profile_id = Some(new.id)]
                             ELSE users'[i] = users[i]
                    /\ Len(users') = Len(users)]_vars

\* the second identity's clone succeeded while it already had a profile
C10_Witness ==
    /\ req.op = "clone_voice"
    /\ resp.status_code = 200
    /\ Requester(req).user.id = 2
    /\ Len(voice_profiles) = 2
    /\ voice_profiles[1].user_id = 2
    /\ users[2].voice_profile_id = Some(voice_profiles[2].id)
    /\ Len(req.files) = 3

\* the stored profiles of an identity, oldest first
ProfilesOf(db_profiles, user_id) ==
    LET Mine(d) == d.user_id = user_id IN SelectSeq(db_profiles, Mine)

\* C12: a successful profile Create by identity i appends one profile owned
\* by i under a fresh id and keeps every earlier profile; after every step
\* the active-profile pointer of an identity that owns profiles is the id of
\* the profile it created last; and a listing by i returns all of i's
\* stored profiles.
C12_CreateSetsActivePointer ==
    [][/\ (req'.op = "create_voice_profile" /\ resp'.status_code = 200)
          => LET me == Requester(req').user.id IN
             /\ Len(voice_profiles') = Len(voice_profiles) + 1
             /\ SubSeq(voice_profiles', 1, Len(voice_profiles)) = voice_profiles
             /\ voice_profiles'[Len(voice_profiles')].id = resp'.body.id
             /\ voice_profiles'[Len(voice_profiles')].user_id = me
             /\ \A i \in 1..Len(voice_profiles) :
                    voice_profiles[i].id # resp'.body.id
             /\ \A i \in 1..Len(users') :
                    users'[i].id = me =>
                        users'[i].voice_profile_id = Some(resp'.body.id)
       /\ \A i \in 1..Len(users') :
             LET mine == ProfilesOf(voice_profiles', users'[i].id) IN
             users'[i].voice_profile_id =
                 IF mine = <<>> THEN None ELSE Some(mine[Len(mine)].id)
       /\ (req'.op = "get_voice_profiles" /\ resp'.status_code = 200)
          => LET mine == ProfilesOf(voice_profiles, Requester(req').user.id) IN
             /\ Len(resp'.body) = Len(mine)
             /\ \A i \in 1..Len(mine) : resp'.body[i].id = mine[i].id]_vars

\* identity 1, who already owned a profile, has created a second one
C12_Witness ==
    /\ req.op = "create_voice_profile"
    /\ resp.status_code = 200
    /\ Requester(req).user.id = 1
    /\ Len(ProfilesOf(voice_profiles, 1)) = 2
    /\ users[1].voice_profile_id = Some(voice_profiles[2].id)

-----------------------------------------------------------------------------
(* The authentication gate.  Alice and Bob register; calls are created,     *)
(* joined and ended; GET /users/me is called with every kind of bearer      *)
(* token, and every other route that depends on get_current_user is called  *)
(* with tokens that must be refused.                                        *)

\* tokens that must be refused: the expired tokens of the stored identities,
\* forged and tampered tokens naming the first identity, a signed token
\* without an identity id, a signed token of a never-stored identity, garbage
DeadCredentials ==
    {jwt_encode([sub |-> Some(i), exp |-> Some(e)], JWT_SECRET_KEY, JWT_ALGORITHM) :
        i \in 1..Len(users), e \in {now - 12, now}}
    \cup {c \in ForgedTokens(now, Len(users)) \cup TamperedTokens(now, Len(users)) :
             c.payload.sub = Some(1)}
    \cup {jwt_encode([sub |-> s, exp |-> Some(now + JWT_EXPIRATION_HOURS)],
                     JWT_SECRET_KEY, JWT_ALGORITHM) : s \in {None, Some(0)}}
    \cup {GarbageToken}

\* the fresh tokens of the stored identities
LiveCredentials == {IssuedToken(i, now) : i \in 1..Len(users)}

GateCall == [receiver_email |-> None, call_type |-> "voice_clone", voice_settings |-> None]

NextGate ==
    \/ RegisterFixed
    \/ \E c \in AllCredentials(now, Len(users)) : get_current_user_info(c)
    \/ \E c \in DeadCredentials \cup {IssuedToken(1, now)} : create_call(GateCall, c)
    \/ \E c \in DeadCredentials : get_calls(c)
    \/ \E id \in CallIds, c \in DeadCredentials \cup LiveCredentials : join_call(id, c)
    \/ \E id \in CallIds, c \in DeadCredentials \cup LiveCredentials : end_call(id, c)
    \/ \E d \in ProfileInputs, c \in DeadCredentials : create_voice_profile(d, c, WritesOK)
    \/ \E c \in DeadCredentials : get_voice_profiles(c)
    \/ \E c \in DeadCredentials :
          clone_voice("my voice", "", <<Wav>>, c,
                      [ok |-> TRUE, voice_id |-> "voice-1", writes |-> WritesOK])
    \/ \E c \in DeadCredentials :
          generate_tts([text |-> "hello", voice_id |-> "voice-1", stability |-> 5,
                        similarity_boost |-> 5, style |-> 0, use_speaker_boost |-> TRUE],
                       c, [ok |-> TRUE, chunks |-> <<<<1, 2>>, <<3>>>>])
    \/ \E c \in DeadCredentials :
          transcribe_audio([filename |-> Some("memo.wav")], c,
                           [ok |-> TRUE, text |-> Some("hello")])

SpecGate == InitCalls /\ [][NextGate]_vars

AuthenticatedOps ==
    {"get_current_user_info", "create_call", "get_calls", "join_call", "end_call",
     "create_voice_profile", "get_voice_profiles", "clone_voice", "generate_tts",
     "transcribe_audio"}

\* the token is a JWT under HS256 whose signature is that of its payload
\* under the process secret
SignatureVerifies(c) ==
    /\ c.wellformed
    /\ c.alg = "HS256"
    /\ c.signature = <<"HS256", "voice-clone-secret-key-2024", c.payload>>

\* the expiry claim, if any, lies in the future
NotExpired(c, t) == \A e \in c.payload.exp : t < e

\* C6: GET /users/me answers with identity i exactly when the token's
\* signature verifies under the process secret, the token is not expired, it
\* carries the identity id i and identity i is stored; on every route behind
\* the gate a token that is malformed, fails signature verification or is
\* expired is answered 401 and no stored document changes.
C6_RequestAuthentication ==
    [][req'.op \in AuthenticatedOps
       => LET c == req'.credentials IN
          /\ req'.op = "get_current_user_info" =>
                \A i \in 0..Len(users) :
                    (resp'.status_code = 200 /\ resp'.body.id = i)
                    <=> /\ SignatureVerifies(c)
                        /\ NotExpired(c, now)
                        /\ c.payload.sub = Some(i)
                        /\ \E k \in 1..Len(users) : users[k].id = i
          /\ req'.op = "get_current_user_info" /\ resp'.status_code = 200 =>
                \E k \in 1..Len(users) :
                    resp'.body = User(parse_from_mongo(users[k]))
          /\ (~SignatureVerifies(c) \/ ~NotExpired(c, now)) =>
                /\ resp' = HTTPException(401, "Invalid token")
                /\ submitted' = <<>>
                /\ UNCHANGED stores]_vars

\* the caller's own token, expired, was refused on Join and on End of a
\* session that is still waiting
C6_Witness ==
    /\ req.op \in {"join_call", "end_call"}
    /\ resp = HTTPException(401, "Invalid token")
    /\ SignatureVerifies(req.credentials)
    /\ \E i \in CallsWithId(req.call_id) :
          /\ req.credentials.payload.sub = Some(calls[i].caller_id)
          /\ calls[i].status = "waiting"
    /\ Len(users) = 2

-----------------------------------------------------------------------------
(* Receivers.  Alice registers, then Bob and an identity whose email is the *)
(* empty string (UserCreate.email is any string); every identity creates    *)
(* calls inviting nobody, a registered email, the empty email or an email   *)
(* nobody registered, and lists its calls.                                  *)

Blank == [username |-> "blank", email |-> "", password |-> "pw2"]

RegisterReceivers ==
    \E d \in IF Len(users) = 0 THEN {Alice} ELSE {Bob, Blank} : register(d, "salt1")

ReceiverInputs ==
    {[receiver_email |-> e, call_type |-> "voice_clone", voice_settings |-> None] :
        e \in {None, Some(Alice.email), Some(Bob.email), Some(Blank.email),
               Some("nobody@example.com")}}

NextReceivers ==
    \/ RegisterReceivers
    \/ \E d \in ReceiverInputs, c \in CallCredentials : create_call(d, c)
    \/ GetCalls

SpecReceivers == InitCalls /\ [][NextReceivers]_vars

\* the identity registered under the email, if any
RegisteredUnder(email) ==
    {users[i].id : i \in {j \in 1..Len(users) : Some(users[j].email) = email}}

\* C15: a session Create by an authenticated requester stores one new
\* session with status waiting and the requester as caller; its receiver is
\* the identity registered under the given email at that time, and absent
\* when no email is given or no identity is registered under it.
C15_CreateResolvesReceiver ==
    [][(req'.op = "create_call" /\ Requester(req').ok)
       => LET new == calls'[Len(calls')] IN
          /\ resp'.status_code = 200
          /\ Len(calls') = Len(calls) + 1
          /\ SubSeq(calls', 1, Len(calls)) = calls
          /\ new.id = resp'.body.id
          /\ new.status = "waiting"
          /\ new.caller_id = Requester(req').user.id
          /\ new.receiver_id = RegisteredUnder(req'.call_data.receiver_email)]_vars

\* C17: a session listing by identity i returns exactly the stored sessions
\* whose caller or receiver is i.
C17_ListingIsExactlyParticipantSessions ==
    [][(req'.op = "get_calls" /\ Requester(req').ok)
       => LET me == Requester(req').user.id
              listed == {resp'.body[k].id : k \in 1..Len(resp'.body)}
          IN
          /\ resp'.status_code = 200
          /\ listed = {calls[i].id : i \in {j \in 1..Len(calls) : IsParticipant(calls[j], me)}}
          /\ Cardinality(listed) = Len(resp'.body)]_vars

\* identity 2 has listed its calls while it was the receiver of one, the
\* caller of none, and another call was not its own
C17_Witness ==
    /\ req.op = "get_calls"
    /\ resp.status_code = 200
    /\ Requester(req).user.id = 2
    /\ Len(calls) = 2
    /\ Len(resp.body) = 1
    /\ resp.body[1].caller_id = 1
    /\ resp.body[1].receiver_id = Some(2)

-----------------------------------------------------------------------------
(* Failing writes.  Alice and Bob register; profiles are created and voices *)
(* cloned while each write of a request is applied or raises; profiles are  *)
(* listed.                                                                  *)

NextStore ==
    \/ RegisterFixed
    \/ \E d \in ProfileInputs, c \in CallCredentials, w \in Writes :
          create_voice_profile(d, c, w)
    \/ \E c \in CallCredentials,
          outcome \in {[ok |-> TRUE, voice_id |-> "voice-1", writes |-> w] : w \in Writes}
                          \cup {[ok |-> FALSE, error |-> [message |-> "quota exceeded"]]} :
          clone_voice("my voice", "", <<Wav, Mp3>>, c, outcome)
    \/ GetVoiceProfiles

SpecStore == InitCalls /\ [][NextStore]_vars

\* the writes of a served profile Create or CloneVoice: the insert is
\* applied and the pointer update raises
SecondaryWriteFails(r) ==
    \/ /\ r.op = "create_voice_profile"
       /\ Requester(r).ok
       /\ r.writes = [insert_one |-> TRUE, update_one |-> FALSE]
    \/ /\ r.op = "clone_voice"
       /\ Requester(r).ok
       /\ r.outcome.ok
       /\ r.outcome.writes = [insert_one |-> TRUE, update_one |-> FALSE]

\* C11: when the pointer update fails after the profile was inserted, the
\* Create or CloneVoice still reports success and the inserted profile is
\* stored; and a listing returns every stored profile of the requester.
C11_SecondaryWriteFailureTolerated ==
    [][/\ SecondaryWriteFails(req')
          => /\ resp'.status_code = 200
             /\ Len(voice_profiles') = Len(voice_profiles) + 1
             /\ voice_profiles'[Len(voice_profiles')].user_id = Requester(req').user.id
       /\ (req'.op = "get_voice_profiles" /\ resp'.status_code = 200)
          => LET mine == ProfilesOf(voice_profiles, Requester(req').user.id) IN
             /\ Len(resp'.body) = Len(mine)
             /\ \A i \in 1..Len(mine) : resp'.body[i].id = mine[i].id]_vars

-----------------------------------------------------------------------------
(* The speech routes.  Alice and Bob register; voices are listed, cloned,   *)
(* synthesized and transcribed with the availability flag set either way,   *)
(* with in-range and out-of-range synthesis settings and with every kind of *)
(* answer of the external service.                                          *)

SpeechTTSRequest(stability, similarity_boost, style) ==
    [text |-> "hello", voice_id |-> "voice-1", stability |-> stability,
     similarity_boost |-> similarity_boost, style |-> style,
     use_speaker_boost |-> TRUE]

\* settings in tenths: the ends of the range, and values on either side of it
SpeechTTSRequests ==
    {SpeechTTSRequest(0, 10, 0), SpeechTTSRequest(7, 7, 10),
     SpeechTTSRequest(15, 7, 0), SpeechTTSRequest(0 - 1, 7, 0),
     SpeechTTSRequest(7, 11, 0), SpeechTTSRequest(7, 0 - 1, 0),
     SpeechTTSRequest(7, 7, 11), SpeechTTSRequest(7, 7, 0 - 1)}

SpeechTTSOutcomes ==
    {[ok |-> TRUE, chunks |-> <<<<1, 2>>, <<3>>>>], [ok |-> TRUE, chunks |-> <<>>],
     [ok |-> FALSE, error |-> [message |-> "quota exceeded"]]}

SpeechAudioFiles == {[filename |-> Some("memo.wav")], [filename |-> None]}

\* a response with text, with empty text, without a text attribute; a failure
SpeechSTTOutcomes ==
    {[ok |-> TRUE, text |-> Some("hello")], [ok |-> TRUE, text |-> Some("")],
     [ok |-> TRUE, text |-> None],
     [ok |-> FALSE, error |-> [message |-> "quota exceeded"]]}

SpeechUploads == {<<Wav>>, <<Wav, Txt, Mp3>>}

NextSpeech ==
    \/ RegisterFixed
    \/ GetAvailableVoices
    \/ \E files \in SpeechUploads, c \in CallCredentials, outcome \in CloneOutcomes :
          clone_voice("my voice", "", files, c, outcome)
    \/ \E r \in SpeechTTSRequests, c \in CallCredentials, o \in SpeechTTSOutcomes :
          generate_tts(r, c, o)
    \/ \E f \in SpeechAudioFiles, c \in CallCredentials, o \in SpeechSTTOutcomes :
          transcribe_audio(f, c, o)

SpecSpeech == Init /\ [][NextSpeech]_vars

\* some synthesis setting lies outside [0.0, 1.0]
OutOfRange(request) ==
    \E v \in {request.stability, request.similarity_boost, request.style} :
        v < 0 \/ v > 10

\* C13: a synthesis request with stability, similarity boost or style
\* outside [0.0, 1.0] submits no external call and stores nothing, and when
\* its requester is authenticated it is answered with the request-validation
\* error (422).
C13_SynthesizeValidatesBeforeDispatch ==
    [][(req'.op = "generate_tts" /\ OutOfRange(req'.request))
       => /\ submitted' = <<>>
          /\ UNCHANGED stores
          /\ Requester(req').ok => resp'.status_code = 422]_vars

\* an authenticated synthesis with style above the range has been refused
\* while the service was available
C13_Witness ==
    /\ req.op = "generate_tts"
    /\ Requester(req).ok
    /\ ELEVENLABS_AVAILABLE
    /\ req.request.style = 11
    /\ req.request.stability = 7
    /\ resp.status_code = 422
    /\ submitted = <<>>

SpeechOps == {"get_available_voices", "clone_voice", "generate_tts", "transcribe_audio"}

\* the request gets past authentication and request validation
ReachesHandler(r) ==
    \/ r.op = "get_available_voices"
    \/ /\ r.op \in {"clone_voice", "transcribe_audio"}
       /\ Requester(r).ok
    \/ /\ r.op = "generate_tts"
       /\ Requester(r).ok
       /\ ~OutOfRange(r.request)

\* C14: while the availability flag is false, a voices listing, clone,
\* synthesis or transcription submits no external call and stores nothing,
\* and every such request that reaches its handler is answered 503.
C14_FailFastOnUnavailability ==
    [][(~ELEVENLABS_AVAILABLE /\ req'.op \in SpeechOps)
       => /\ submitted' = <<>>
          /\ UNCHANGED stores
          /\ ReachesHandler(req')
                => resp' = HTTPException(503, "ElevenLabs service not available")]_vars

\* with the flag false, an authenticated clone whose external call would
\* have succeeded has been answered 503
C14_Witness ==
    /\ ~ELEVENLABS_AVAILABLE
    /\ req.op = "clone_voice"
    /\ Requester(req).ok
    /\ req.outcome.ok
    /\ resp.status_code = 503
    /\ voice_profiles = <<>>

\* C16: whenever the external transcription call of a served request
\* returns, with or without a text attribute, exactly one record is stored,
\* it is the one returned, and its text is the response's text or, without
\* one, the fallback string.
C16_TranscribePersists ==
    [][(/\ req'.op = "transcribe_audio"
        /\ Requester(req').ok
        /\ ELEVENLABS_AVAILABLE
        /\ req'.outcome.ok)
       => /\ resp'.status_code = 200
          /\ Len(stt_transcriptions') = Len(stt_transcriptions) + 1
          /\ SubSeq(stt_transcriptions', 1, Len(stt_transcriptions)) = stt_transcriptions
          /\ stt_transcriptions'[Len(stt_transcriptions')].transcription_id
                = resp'.body.transcription_id
          /\ stt_transcriptions'[Len(stt_transcriptions')].transcribed_text
                = resp'.body.transcribed_text
          /\ resp'.body.transcribed_text =
                IF req'.outcome.text = None THEN <<"str", req'.outcome>>
                ELSE TheValue(req'.outcome.text)
          /\ UNCHANGED <<users, voice_profiles, calls, tts_generations>>]_vars

\* a response without a text attribute has been stored under its fallback
C16_Witness ==
    /\ req.op = "transcribe_audio"
    /\ req.outcome.ok
    /\ req.outcome.text = None
    /\ resp.status_code = 200
    /\ Len(stt_transcriptions) = 1
    /\ stt_transcriptions[1].transcribed_text = <<"str", req.outcome>>
    /\ stt_transcriptions[1].filename = "unknown.audio"

-----------------------------------------------------------------------------
(* Interleaved handlers.  The handlers run as coroutines on one event-loop  *)
(* thread: a handler runs from one await to the next without interruption,  *)
(* and while it is suspended at an await other handlers run.  run_sync      *)
(* hands a function to the thread pool (max_workers threads) and the        *)
(* handler awaits its future.  A task of `tasks` is a request from its      *)
(* first suspension on: pc is the await it is suspended at ("run_sync",     *)
(* "insert_one", "update_one"), "collecting" while it iterates the audio    *)
(* generator on the event-loop thread, "done" once it has returned or       *)
(* raised, and "cancelled" when the server cancelled it; job is the state   *)
(* of the function it handed to the pool.                                   *)

MaxTasks == 2

max_workers == 4

AsyncOps == {"create_voice_profile", "clone_voice", "generate_tts", "transcribe_audio"}

\* the operations that call the external speech service through run_sync
OffloadedOps == {"clone_voice", "generate_tts", "transcribe_audio"}

\* the event-loop thread is inside `for chunk in audio_generator`
LoopBlocked == \E i \in 1..Len(tasks) : tasks[i].pc = "collecting"

\* the functions the pool's threads are running
Running == {i \in 1..Len(tasks) : tasks[i].job = "running"}

\* the uuid4 drawn by the request that became task i
task_uuid4(i) == i

\* a request arrives and its handler runs up to its first await of the pool
\* or of a write (dependencies resolved, availability checked, the document
\* built, the function handed to the pool)
begin(op, credentials) ==
    LET auth == get_current_user(credentials, users, now)
        i == Len(tasks) + 1
    IN
    /\ ~LoopBlocked
    /\ Len(tasks) < MaxTasks
    /\ req' = [op |-> op, credentials |-> credentials, task |-> i]
    /\ IF ~auth.ok
       THEN /\ resp' = auth.error
            /\ submitted' = <<>>
            /\ UNCHANGED tasks
       ELSE IF op \in OffloadedOps /\ ~ELEVENLABS_AVAILABLE
       THEN /\ resp' = HTTPException(503, "ElevenLabs service not available")
            /\ submitted' = <<>>
            /\ UNCHANGED tasks
       ELSE /\ resp' = [status_code |-> 0]
            /\ submitted' = IF op \in OffloadedOps THEN <<op>> ELSE <<>>
            /\ tasks' = Append(tasks,
                   [op |-> op, user_id |-> auth.user.id, id |-> task_uuid4(i),
                    pc |-> IF op \in OffloadedOps THEN "run_sync" ELSE "insert_one",
                    job |-> IF op \in OffloadedOps THEN "queued" ELSE "none",
                    cancelled |-> FALSE, pending |-> 0])
    /\ UNCHANGED <<stores, ELEVENLABS_AVAILABLE, now>>

\* a pool that starts a thread for every function handed to it
start_job_Unbounded(i) ==
    /\ tasks[i].job = "queued"
    /\ tasks' = [tasks EXCEPT ![i].job = "running"]
    /\ req' = [op |-> "executor", task |-> i]
    /\ resp' = [status_code |-> 0]
    /\ submitted' = <<>>
    /\ UNCHANGED <<stores, ELEVENLABS_AVAILABLE, now>>

\* a free thread of the pool takes the function of task i
start_job(i) ==
    /\ tasks[i].job = "queued"
    /\ Cardinality(Running) < max_workers
    /\ tasks' = [tasks EXCEPT ![i].job = "running"]
    /\ req' = [op |-> "executor", task |-> i]
    /\ resp' = [status_code |-> 0]
    /\ submitted' = <<>>
    /\ UNCHANGED <<stores, ELEVENLABS_AVAILABLE, now>>

\* the external call of task i returns or raises, in its thread
finish_job(i, ok) ==
    /\ tasks[i].job = "running"
    /\ tasks' = [tasks EXCEPT ![i].job = IF ok THEN "returned" ELSE "raised"]
    /\ req' = [op |-> "executor", task |-> i]
    /\ resp' = [status_code |-> 0]
    /\ submitted' = <<>>
    /\ UNCHANGED <<stores, ELEVENLABS_AVAILABLE, now>>

\* the detail prefix of each handler's `except Exception`
ErrorPrefix(op) ==
    IF op = "clone_voice" THEN "Error cloning voice: "
    ELSE IF op = "generate_tts" THEN "Error generating TTS: "
    ELSE "Error transcribing audio: "

\* the handler of task i resumes after `await run_sync(...)`: an exception
\* goes to `except Exception` (500); a result takes clone_voice and
\* transcribe_audio to their insert, and generate_tts into the loop over the
\* returned generator, of which `pending` chunks are still to be received
resume(i, pending) ==
    /\ ~LoopBlocked
    /\ tasks[i].pc = "run_sync"
    /\ tasks[i].job \in {"returned", "raised"}
    /\ pending > 0 => (tasks[i].op = "generate_tts" /\ tasks[i].job = "returned")
    /\ req' = [op |-> tasks[i].op, task |-> i]
    /\ IF tasks[i].job = "raised"
       THEN /\ tasks' = [tasks EXCEPT ![i].pc = "done"]
            /\ resp' = HTTPException(500, <<ErrorPrefix(tasks[i].op),
                                             Str([message |-> "quota exceeded"])>>)
       ELSE /\ tasks' = [tasks EXCEPT ![i].pc = IF pending > 0 THEN "collecting"
                                                 ELSE "insert_one",
                                      ![i].pending = pending]
            /\ resp' = [status_code |-> 0]
    /\ submitted' = <<>>
    /\ UNCHANGED <<stores, ELEVENLABS_AVAILABLE, now>>

\* the external service sends the next chunk to the event-loop thread, which
\* is waiting for it inside `for chunk in audio_generator`
next_chunk(i) ==
    /\ tasks[i].pc = "collecting"
    /\ tasks' = [tasks EXCEPT ![i].pending = @ - 1,
                              ![i].pc = IF tasks[i].pending = 1 THEN "insert_one"
                                        ELSE "collecting"]
    /\ req' = [op |-> tasks[i].op, task |-> i]
    /\ resp' = [status_code |-> 0]
    /\ submitted' = <<>>
    /\ UNCHANGED <<stores, ELEVENLABS_AVAILABLE, now>>

\* the document task i inserts
task_document(i) ==
    IF tasks[i].op \in {"create_voice_profile", "clone_voice"}
    THEN [id |-> tasks[i].id, user_id |-> tasks[i].user_id,
          name |-> IF tasks[i].op = "clone_voice" THEN "my voice" ELSE "default voice",
          voice_id |-> IF tasks[i].op = "clone_voice" THEN Some("voice-1") ELSE None,
          voice_data |-> IF tasks[i].op = "clone_voice"
                         THEN [description |-> "", elevenlabs_voice_id |-> "voice-1",
                               samples_count |-> 1]
                         ELSE DefaultVoiceData,
          samples_count |-> IF tasks[i].op = "clone_voice" THEN 1 ELSE 0,
          training_status |-> IF tasks[i].op = "clone_voice" THEN "ready" ELSE "untrained",
          created_at |-> Datetime(now), is_active |-> TRUE]
    ELSE IF tasks[i].op = "generate_tts"
    THEN [audio_url |-> <<"data:audio/mpeg;base64,", b64encode(<<1, 2, 3>>)>>,
          text |-> "hello", voice_id |-> "voice-1",
          generation_id |-> tasks[i].id, created_at |-> Datetime(now)]
    ELSE [transcribed_text |-> "hello", filename |-> "memo.wav",
          transcription_id |-> tasks[i].id, created_at |-> Datetime(now)]

\* the handler of task i resumes after its insert: the document is stored;
\* generate_tts and transcribe_audio return it, create_voice_profile and
\* clone_voice go on to await the pointer update
insert_step(i) ==
    LET doc == task_document(i)
        op == tasks[i].op
    IN
    /\ ~LoopBlocked
    /\ tasks[i].pc = "insert_one"
    /\ req' = [op |-> op, task |-> i]
    /\ voice_profiles' = IF op \in {"create_voice_profile", "clone_voice"}
                         THEN insert_one(voice_profiles, prepare_for_mongo(doc))
                         ELSE voice_profiles
    /\ tts_generations' = IF op = "generate_tts"
                          THEN insert_one(tts_generations, prepare_for_mongo(doc))
                          ELSE tts_generations
    /\ stt_transcriptions' = IF op = "transcribe_audio"
                             THEN insert_one(stt_transcriptions, prepare_for_mongo(doc))
                             ELSE stt_transcriptions
    /\ IF op \in {"create_voice_profile", "clone_voice"}
       THEN /\ tasks' = [tasks EXCEPT ![i].pc = "update_one"]
            /\ resp' = [status_code |-> 0]
       ELSE /\ tasks' = [tasks EXCEPT ![i].pc = "done"]
            /\ resp' = OK(doc)
    /\ submitted' = <<>>
    /\ UNCHANGED <<users, calls, ELEVENLABS_AVAILABLE, now>>

\* the handler of task i resumes after its pointer update and returns
update_step(i) ==
    /\ ~LoopBlocked
    /\ tasks[i].pc = "update_one"
    /\ req' = [op |-> tasks[i].op, task |-> i]
    /\ users' = update_one(users, IdFilter(tasks[i].user_id),
                           [voice_profile_id |-> Some(tasks[i].id)]).coll
    /\ tasks' = [tasks EXCEPT ![i].pc = "done"]
    /\ resp' = OK([id |-> tasks[i].id])
    /\ submitted' = <<>>
    /\ UNCHANGED <<voice_profiles, calls, tts_generations, stt_transcriptions,
                   ELEVENLABS_AVAILABLE, now>>

\* the connection of task i is dropped and the server cancels the handler,
\* which is suspended at `await run_sync(...)`: CancelledError is raised
\* there and is no Exception, so the handler ends; a function still queued
\* in the pool is cancelled with its future, a running one runs on
cancel(i) ==
    /\ ~LoopBlocked
    /\ tasks[i].pc = "run_sync"
    /\ tasks' = [tasks EXCEPT ![i].pc = "cancelled",
                              ![i].cancelled = TRUE,
                              ![i].job = IF tasks[i].job = "queued" THEN "cancelled"
                                         ELSE tasks[i].job]
    /\ req' = [op |-> "cancel", task |-> i]
    /\ resp' = [status_code |-> 0]
    /\ submitted' = <<>>
    /\ UNCHANGED <<stores, ELEVENLABS_AVAILABLE, now>>

AsyncCredentials == {IssuedToken(1, now), GarbageToken}

Begin == \E op \in AsyncOps, c \in AsyncCredentials : begin(op, c)

StartJob == \E i \in 1..Len(tasks) : start_job(i)

FinishJob == \E i \in 1..Len(tasks), ok \in BOOLEAN : finish_job(i, ok)

\* the generator holds all its audio already, or two chunks are still to come
Resume == \E i \in 1..Len(tasks), pending \in {0, 2} : resume(i, pending)

NextChunk == \E i \in 1..Len(tasks) : next_chunk(i)

InsertStep == \E i \in 1..Len(tasks) : insert_step(i)

UpdateStep == \E i \in 1..Len(tasks) : update_step(i)

Cancel == \E i \in 1..Len(tasks) : cancel(i)

\* another request, served while the event-loop thread is free
AsyncJoinCall == ~LoopBlocked /\ \E c \in AsyncCredentials : join_call(1, c)

NextAsync ==
    \/ ~LoopBlocked /\ Len(users) = 0 /\ register(Alice, "salt1")
    \/ Begin
    \/ StartJob
    \/ FinishJob
    \/ Resume
    \/ NextChunk
    \/ InsertStep
    \/ UpdateStep
    \/ Cancel
    \/ AsyncJoinCall
    \/ ~LoopBlocked /\ create_call(GateCall, IssuedToken(1, now))

SpecAsync == InitCalls /\ [][NextAsync]_vars

\* task i is waiting on the external speech service
WaitingOnExternal(i) ==
    \/ tasks[i].pc = "run_sync" /\ tasks[i].job \in {"queued", "running"}
    \/ tasks[i].pc = "collecting"

\* C18: while a request is waiting on the external speech service (its
\* function in the pool, or its audio stream being collected), another
\* request can be served.
C18_SlowExternalCallNeverStalls ==
    (\E i \in 1..Len(tasks) : WaitingOnExternal(i)) => ENABLED AsyncJoinCall

\* the result of task i is stored
Persisted(i) ==
    \/ /\ tasks[i].op = "clone_voice"
       /\ \E k \in 1..Len(voice_profiles) : voice_profiles[k].id = tasks[i].id
    \/ /\ tasks[i].op = "generate_tts"
       /\ \E k \in 1..Len(tts_generations) : tts_generations[k].generation_id = tasks[i].id
    \/ /\ tasks[i].op = "transcribe_audio"
       /\ \E k \in 1..Len(stt_transcriptions) :
              stt_transcriptions[k].transcription_id = tasks[i].id

\* C19: a request cancelled after its external call was handed to the pool
\* does not lose the call: the function is not cancelled with it, and once
\* the call has returned and the handler has ended the result is stored.
C19_FireAndPersistOnDisconnect ==
    \A i \in 1..Len(tasks) :
        (tasks[i].op \in OffloadedOps /\ tasks[i].cancelled)
            => /\ tasks[i].job # "cancelled"
               /\ tasks[i].job = "returned" => Persisted(i)

\* C20: no state shows the profile of a Create stored while that Create has
\* not yet updated its owner's active-profile pointer.
C20_ProfileCreateIsAtomic ==
    \A i \in 1..Len(tasks) :
        (/\ tasks[i].op = "create_voice_profile"
         /\ \E k \in 1..Len(voice_profiles) : voice_profiles[k].id = tasks[i].id)
            => tasks[i].pc = "done"

\* C21: once every profile creation (Create or CloneVoice) that was started
\* has completed, the active-profile pointer of an identity that owns
\* profiles is the id of the profile that was inserted last.
C21_LastCreatedWinsUnderConcurrency ==
    (\A i \in 1..Len(tasks) :
        tasks[i].op \in {"create_voice_profile", "clone_voice"}
            => tasks[i].pc \in {"done", "cancelled"})
    => \A u \in 1..Len(users) :
          LET mine == ProfilesOf(voice_profiles, users[u].id) IN
          mine # <<>> => users[u].voice_profile_id = Some(mine[Len(mine)].id)

-----------------------------------------------------------------------------
(* Interleaved registrations.  register awaits find_one and, later,         *)
(* insert_one; between the two awaits other handlers run.  A task of op     *)
(* "register" is a registration whose find_one found nothing and whose      *)
(* insert_one is awaited; `document` is the user_dict it inserts.           *)

\* POST /auth/register up to `await db.users.insert_one(user_dict)`
register_find(user_data, salt) ==
    LET existing_user == find_one(users, EmailFilter(user_data.email))
        i == Len(tasks) + 1
        user == [id |-> task_uuid4(i), username |-> user_data.username,
                 email |-> user_data.email, created_at |-> Datetime(now),
                 voice_profile_id |-> None]
        user_dict == prepare_for_mongo(
            [id |-> user.id, username |-> user.username, email |-> user.email,
             created_at |-> user.created_at,
             voice_profile_id |-> user.voice_profile_id,
             password_hash |-> hash_password_with(salt, user_data.password)])
    IN
    /\ Len(tasks) < MaxTasks
    /\ req' = [op |-> "register", user_data |-> user_data, task |-> i]
    /\ IF existing_user # None
       THEN /\ resp' = HTTPException(400, "Email already registered")
            /\ UNCHANGED tasks
       ELSE /\ resp' = [status_code |-> 0]
            /\ tasks' = Append(tasks,
                   [op |-> "register", user_id |-> user.id, id |-> user.id,
                    pc |-> "insert_one", job |-> "none", cancelled |-> FALSE,
                    pending |-> 0, document |-> user_dict])
    /\ submitted' = <<>>
    /\ UNCHANGED <<stores, ELEVENLABS_AVAILABLE, now>>

\* the registration of task i resumes after its insert and returns the token
register_insert(i) ==
    LET user == User(parse_from_mongo(tasks[i].document))
        token == create_access_token([sub |-> Some(user.id)], now)
    IN
    /\ tasks[i].op = "register"
    /\ tasks[i].pc = "insert_one"
    /\ Len(users) < MaxUsers
    /\ req' = [op |-> "register", task |-> i,
               user_data |-> [email |-> user.email, username |-> user.username]]
    /\ users' = insert_one(users, tasks[i].document)
    /\ tasks' = [tasks EXCEPT ![i].pc = "done"]
    /\ resp' = OK(UserResponse(user, token))
    /\ submitted' = <<>>
    /\ UNCHANGED <<voice_profiles, calls, tts_generations, stt_transcriptions,
                   ELEVENLABS_AVAILABLE, now>>

NextRegister ==
    \/ \E d \in AuthUserCreate, salt \in Salts : register_find(d, salt)
    \/ \E i \in 1..Len(tasks) : register_insert(i)
    \/ Login

SpecRegister == InitCalls /\ [][NextRegister]_vars

\* C22: in every state at most one stored identity has any given email.
C22_EmailUniqueUnderConcurrency ==
    \A i, j \in 1..Len(users) : users[i].email = users[j].email => i = j

-----------------------------------------------------------------------------
(* Interleaved Join and End.  join_call and end_call await one update_one;  *)
(* between the resolution of the requester and the application of the       *)
(* update other handlers run.  A task of op "join_call" or "end_call" is a  *)
(* request whose update is on its way to the database: id is the call id,   *)
(* sent_at the time at which the handler built the update document.         *)

\* PATCH /calls/{call_id}/join or /end up to `await db.calls.update_one(...)`
call_begin(op, call_id, credentials) ==
    LET auth == get_current_user(credentials, users, now)
        i == Len(tasks) + 1
    IN
    /\ Len(tasks) < MaxTasks
    /\ req' = [op |-> op, call_id |-> call_id, credentials |-> credentials, task |-> i]
    /\ IF ~auth.ok
       THEN /\ resp' = auth.error
            /\ UNCHANGED tasks
       ELSE /\ resp' = [status_code |-> 0]
            /\ tasks' = Append(tasks,
                   [op |-> op, user_id |-> auth.user.id, id |-> call_id,
                    pc |-> "update_one", job |-> "none", cancelled |-> FALSE,
                    pending |-> 0, sent_at |-> now])
    /\ submitted' = <<>>
    /\ UNCHANGED <<stores, ELEVENLABS_AVAILABLE, now>>

\* the database applies the update of task i and the handler answers
call_apply(i) ==
    LET current_user == [id |-> tasks[i].user_id]
        r == IF tasks[i].op = "join_call"
             THEN join_call_result(calls, tasks[i].id, current_user)
             ELSE end_call_result(calls, tasks[i].id, current_user, tasks[i].sent_at)
    IN
    /\ tasks[i].op \in {"join_call", "end_call"}
    /\ tasks[i].pc = "update_one"
    /\ req' = [op |-> tasks[i].op, call_id |-> tasks[i].id, task |-> i]
    /\ calls' = r.calls
    /\ resp' = r.resp
    /\ tasks' = [tasks EXCEPT ![i].pc = "done"]
    /\ submitted' = <<>>
    /\ UNCHANGED <<users, voice_profiles, tts_generations, stt_transcriptions,
                   ELEVENLABS_AVAILABLE, now>>

NextFence ==
    \/ RegisterFixed
    \/ /\ Len(users) > 0
       /\ create_call([receiver_email |-> Some(Bob.email), call_type |-> "voice_clone",
                       voice_settings |-> None], IssuedToken(1, now))
    \/ \E op \in {"join_call", "end_call"}, id \in 1..Len(calls), c \in LiveCredentials :
          call_begin(op, id, c)
    \/ \E i \in 1..Len(tasks) : call_apply(i)

SpecFence == InitCalls /\ [][NextFence]_vars

\* C25: whenever the update of a Join or End is applied and the requester is
\* caller or receiver of the addressed session, the request succeeds and the
\* session's status becomes the one that update writes, whatever the status
\* was and whatever other Join or End is in flight; the update touches no
\* other session, no other step changes a stored session, and no state shows
\* an `ended` status without its end timestamp (the write is one update).
C25_JoinEndLastWriteWins ==
    [][/\ \A i \in 1..Len(tasks) :
              (/\ tasks[i].op \in {"join_call", "end_call"}
               /\ tasks[i].pc = "update_one"
               /\ tasks'[i].pc = "done")
              => LET mine == {k \in CallsWithId(tasks[i].id) :
                                 IsParticipant(calls[k], tasks[i].user_id)}
                 IN /\ mine # {} =>
                        /\ resp'.status_code = 200
                        /\ \A k \in mine :
                               calls'[k].status = IF tasks[i].op = "join_call"
                                                  THEN "active" ELSE "ended"
                    /\ \A k \in (1..Len(calls)) \ mine : calls'[k] = calls[k]
       /\ (\A i \in 1..Len(tasks) : tasks'[i].pc = tasks[i].pc)
              => \A k \in 1..Len(calls) : calls'[k] = calls[k]
       /\ \A k \in 1..Len(calls') :
              calls'[k].status = "ended" => calls'[k].ended_at # None]_vars

\* Alice's End was sent first and applied last: Bob's Join, sent while the End
\* was in flight, succeeded and made the session active, and then the End
\* succeeded and the session's status is the End's
C25_Witness ==
    /\ Len(tasks) = 2
    /\ tasks[1].op = "end_call" /\ tasks[1].user_id = 1 /\ tasks[1].pc = "done"
    /\ tasks[2].op = "join_call" /\ tasks[2].user_id = 2 /\ tasks[2].pc = "done"
    /\ tasks[1].id = tasks[2].id
    /\ req.op = "end_call" /\ req.task = 1
    /\ resp = OK([status |-> "ended"])
    /\ \E k \in CallsWithId(tasks[1].id) :
          /\ calls[k].caller_id = 1
          /\ calls[k].receiver_id = Some(2)
          /\ calls[k].status = "ended"

-----------------------------------------------------------------------------
(* The thread pool.  GET /voices/available is requested up to MaxPending    *)
(* times; each request that passes the availability check hands its call    *)
(* to the pool and awaits the future.  `result` is the status the request   *)
(* was answered with (0 while it waits).                                    *)

MaxPending == 5

\* GET /voices/available up to `await run_sync(...)`
voices_begin ==
    LET i == Len(tasks) + 1 IN
    /\ ~LoopBlocked
    /\ Len(tasks) < MaxPending
    /\ req' = [op |-> "get_available_voices", task |-> i]
    /\ IF ~ELEVENLABS_AVAILABLE
       THEN /\ resp' = HTTPException(503, "ElevenLabs service not available")
            /\ submitted' = <<>>
            /\ UNCHANGED tasks
       ELSE /\ resp' = [status_code |-> 0]
            /\ submitted' = <<"voices.get_all">>
            /\ tasks' = Append(tasks,
                   [op |-> "get_available_voices", user_id |-> None,
                    id |-> task_uuid4(i), pc |-> "run_sync", job |-> "queued",
                    cancelled |-> FALSE, pending |-> 0, result |-> 0])
    /\ UNCHANGED <<stores, ELEVENLABS_AVAILABLE, now>>

\* a listing that is resumed by a result only
voices_resume_ResultOnly(i) ==
    /\ ~LoopBlocked
    /\ tasks[i].op = "get_available_voices"
    /\ tasks[i].pc = "run_sync"
    /\ tasks[i].job = "returned"
    /\ req' = [op |-> "get_available_voices", task |-> i]
    /\ tasks' = [tasks EXCEPT ![i].pc = "done", ![i].result = 200]
    /\ resp' = OK([voices |-> <<"voice-1">>])
    /\ submitted' = <<>>
    /\ UNCHANGED <<stores, ELEVENLABS_AVAILABLE, now>>

\* the handler of task i resumes after `await run_sync(...)` with the voices,
\* or with the exception of the call, which `except Exception` reports
voices_resume(i) ==
    /\ ~LoopBlocked
    /\ tasks[i].op = "get_available_voices"
    /\ tasks[i].pc = "run_sync"
    /\ tasks[i].job \in {"returned", "raised"}
    /\ req' = [op |-> "get_available_voices", task |-> i]
    /\ IF tasks[i].job = "returned"
       THEN /\ tasks' = [tasks EXCEPT ![i].pc = "done", ![i].result = 200]
            /\ resp' = OK([voices |-> <<"voice-1">>])
       ELSE /\ tasks' = [tasks EXCEPT ![i].pc = "done", ![i].result = 500]
            /\ resp' = HTTPException(500, <<"Error fetching voices: ",
                                             Str([message |-> "quota exceeded"])>>)
    /\ submitted' = <<>>
    /\ UNCHANGED <<stores, ELEVENLABS_AVAILABLE, now>>

VoicesResume == \E i \in 1..Len(tasks) : voices_resume(i)

NextPool ==
    \/ voices_begin
    \/ StartJob
    \/ FinishJob
    \/ VoicesResume

SpecPool == InitCalls /\ [][NextPool]_vars

\* a free thread takes a queued function, every external call returns or
\* raises, and the event loop resumes a handler whose future is done
FairSpecPool ==
    SpecPool /\ WF_vars(StartJob) /\ WF_vars(FinishJob) /\ WF_vars(VoicesResume)

C24_OffloadedCallEventuallyAnswered ==
    \A i \in 1..MaxPending :
        (Len(tasks) >= i /\ tasks[i].pc = "run_sync")
            ~> (/\ Len(tasks) >= i
                /\ tasks[i].pc = "done"
                /\ tasks[i].result = IF tasks[i].job = "raised" THEN 500 ELSE 200)

\* more calls than threads were submitted and all are answered, the last one
\* with the error of its call
C24_Witness ==
    /\ Len(tasks) > max_workers
    /\ \A i \in 1..Len(tasks) : tasks[i].pc = "done"
    /\ tasks[Len(tasks)].job = "raised"
    /\ tasks[Len(tasks)].result = 500
    /\ tasks[1].result = 200
    /\ req.task = Len(tasks)
    /\ resp.status_code = 500

====
